---- MODULE Spec2Model ----
(***************************************************************************)
(* A model of retemplar: the path matcher, the line-level text merger, the *)
(* protected-block enforcer, the plan builder and the apply executor.      *)
(*                                                                         *)
(* Texts and paths are sequences of tokens.  A token stands for one        *)
(* character of the alphabet ("a", "b", "/", "*", the newline NL) or for a  *)
(* fixed literal the code writes or tests as a whole (a conflict marker,   *)
(* the ".orphaned" suffix, a block sentinel).  Indices follow Python:      *)
(* 0-based, half-open slices.                                              *)
(***************************************************************************)
EXTENDS Integers, Sequences, FiniteSets, TLC

VARIABLES
    lock,       \* the lock record on disk, or NoLock
    repo,       \* repository tree: path -> content or Absent
    tmpl,       \* target template tree: path -> content or Absent
    before,     \* repository tree as it was when the last apply started
    plan,       \* result of the last plan_upgrade
    result,     \* result of the last apply_changes
    applies,    \* number of apply_changes calls so far
    pc,         \* which operation ran last
    ours,       \* local text handed to the text operations
    theirs,     \* template (or candidate) text handed to the text operations
    merged,     \* text returned by the last text operation
    report,     \* ids reported by enforce_ours_blocks
    mpath,      \* path handed to the rule resolver
    mrules,     \* managed rules handed to the rule resolver
    mbest,      \* rules returned by the rule resolvers
    outcome,    \* how the last operation ended: "ok" or the exception raised
    fault,      \* the failure the file system dealt to the last apply
    pending,    \* record data handed to the lock operations
    tmpfile     \* what the lock's temporary file holds, or NoLock

vars == <<lock, repo, tmpl, before, plan, result, applies, pc,
          ours, theirs, merged, report, mpath, mrules, mbest,
          outcome, fault, pending, tmpfile>>

fsvars == <<lock, repo, tmpl, before, plan, result, applies>>
textvars == <<ours, theirs, merged, report>>
matchvars == <<mpath, mrules, mbest>>
opvars == <<outcome, fault>>
writevars == <<pending, tmpfile>>

-----------------------------------------------------------------------------
(* Bounds *)

MaxLines == 3
MaxBlockLines == 3
MaxRules == 2
MaxApplies == 2

-----------------------------------------------------------------------------
(* Strings *)

NL == "\n"

Min(a, b) == IF a < b THEN a ELSE b
Max(a, b) == IF a > b THEN a ELSE b

\* Python slice s[i:j] with 0 <= i, clipped at both ends
Slice(s, i, j) == SubSeq(s, Max(i, 0) + 1, Min(j, Len(s)))

endswith(s, t) == Len(s) > 0 /\ s[Len(s)] = t

RECURSIVE rstrip(_, _)
rstrip(s, t) == IF endswith(s, t) THEN rstrip(SubSeq(s, 1, Len(s) - 1), t) ELSE s

RECURSIVE Flatten(_)
Flatten(ls) == IF ls = <<>> THEN <<>> ELSE Head(ls) \o Flatten(Tail(ls))

\* str.splitlines(keepends=True): every line keeps its newline
RECURSIVE splitlines(_)
splitlines(s) ==
    IF s = <<>> THEN <<>>
    ELSE IF \E k \in 1..Len(s) : s[k] = NL
         THEN LET k == CHOOSE k \in 1..Len(s) :
                            s[k] = NL /\ \A m \in 1..(k - 1) : s[m] # NL
              IN  <<SubSeq(s, 1, k)>> \o splitlines(SubSeq(s, k + 1, Len(s)))
         ELSE <<s>>

\* t occurs in s as a contiguous run
Contains(s, t) ==
    \E k \in 0..(Len(s) - Len(t)) : SubSeq(s, k + 1, k + Len(t)) = t

-----------------------------------------------------------------------------
(* difflib.SequenceMatcher(None, a, b) without junk *)

RECURSIVE MatchLen(_, _, _, _, _, _)
MatchLen(a, b, i, j, ahi, bhi) ==
    IF i < ahi /\ j < bhi /\ a[i + 1] = b[j + 1]
    THEN 1 + MatchLen(a, b, i + 1, j + 1, ahi, bhi)
    ELSE 0

\* the longest matching block; among those the one starting earliest in a,
\* then earliest in b
find_longest_match(a, b, alo, ahi, blo, bhi) ==
    LET starts == (alo..(ahi - 1)) \X (blo..(bhi - 1))
        best == IF starts = {} THEN 0
                ELSE LET ls == {MatchLen(a, b, s[1], s[2], ahi, bhi) : s \in starts}
                     IN  CHOOSE k \in ls : \A m \in ls : m <= k
    IN  IF best = 0 THEN <<alo, blo, 0>>
        ELSE LET cand == {s \in starts : MatchLen(a, b, s[1], s[2], ahi, bhi) = best}
                 s == CHOOSE s \in cand :
                         \A u \in cand : s[1] < u[1] \/ (s[1] = u[1] /\ s[2] <= u[2])
             IN  <<s[1], s[2], best>>

RECURSIVE MatchingBlocksIn(_, _, _, _, _, _)
MatchingBlocksIn(a, b, alo, ahi, blo, bhi) ==
    LET m == find_longest_match(a, b, alo, ahi, blo, bhi)
        i == m[1]
        j == m[2]
        k == m[3]
    IN  IF k = 0 THEN <<>>
        ELSE (IF alo < i /\ blo < j
              THEN MatchingBlocksIn(a, b, alo, i, blo, j) ELSE <<>>)
             \o <<m>> \o
             (IF i + k < ahi /\ j + k < bhi
              THEN MatchingBlocksIn(a, b, i + k, ahi, j + k, bhi) ELSE <<>>)

\* adjacent blocks are collapsed into one
RECURSIVE CollapseBlocks(_, _)
CollapseBlocks(bl, cur) ==
    IF bl = <<>> THEN (IF cur[3] > 0 THEN <<cur>> ELSE <<>>)
    ELSE LET nx == Head(bl)
         IN  IF cur[1] + cur[3] = nx[1] /\ cur[2] + cur[3] = nx[2]
             THEN CollapseBlocks(Tail(bl), <<cur[1], cur[2], cur[3] + nx[3]>>)
             ELSE (IF cur[3] > 0 THEN <<cur>> ELSE <<>>)
                  \o CollapseBlocks(Tail(bl), nx)

get_matching_blocks(a, b) ==
    CollapseBlocks(MatchingBlocksIn(a, b, 0, Len(a), 0, Len(b)), <<0, 0, 0>>)
        \o <<(<<Len(a), Len(b), 0>>)>>

RECURSIVE OpcodesFrom(_, _, _)
OpcodesFrom(mb, i, j) ==
    IF mb = <<>> THEN <<>>
    ELSE LET ai == Head(mb)[1]
             bj == Head(mb)[2]
             size == Head(mb)[3]
             tag == IF i < ai /\ j < bj THEN "replace"
                    ELSE IF i < ai THEN "delete"
                    ELSE IF j < bj THEN "insert"
                    ELSE ""
         IN  (IF tag # "" THEN <<(<<tag, i, ai, j, bj>>)>> ELSE <<>>)
             \o (IF size > 0
                 THEN <<(<<"equal", ai, ai + size, bj, bj + size>>)>> ELSE <<>>)
             \o OpcodesFrom(Tail(mb), ai + size, bj + size)

get_opcodes(a, b) == OpcodesFrom(get_matching_blocks(a, b), 0, 0)

-----------------------------------------------------------------------------
(* Protected blocks (utils/blockprotect.py) *)

BlockIds == {"1", "2"}

\* the sentinel lines' contents, each written as one token
BeginTok(id) == "# retemplar:begin id=" \o id \o " mode=ignore"
EndTok(id) == "# retemplar:end id=" \o id

IsBeginLine(line, id) == \E k \in 1..Len(line) : line[k] = BeginTok(id)
IsEndLine(line, id) == \E k \in 1..Len(line) : line[k] = EndTok(id)

\* spans of the protected blocks among lines, id -> [start, end] (line
\* indices, inclusive); an unmatched begin gives no span, the last begin of an
\* id wins
BlocksOfLines(lines) ==
    LET n == Len(lines)
        Closed(id, s) == \E e \in (s + 1)..(n - 1) : IsEndLine(lines[e + 1], id)
        Begins(id) == {s \in 0..(n - 1) : IsBeginLine(lines[s + 1], id) /\ Closed(id, s)}
        ids == {id \in BlockIds : Begins(id) # {}}
    IN  [id \in ids |->
            LET s == CHOOSE s \in Begins(id) : \A u \in Begins(id) : u <= s
                e == CHOOSE e \in (s + 1)..(n - 1) :
                        /\ IsEndLine(lines[e + 1], id)
                        /\ \A u \in (s + 1)..(e - 1) : ~IsEndLine(lines[u + 1], id)
            IN  [start |-> s, end |-> e]]

find_ignore_blocks(text) == BlocksOfLines(splitlines(text))

\* no two blocks share a line
Disjoint(blocks) ==
    \A i, j \in DOMAIN blocks :
        i # j => (blocks[i].end < blocks[j].start \/ blocks[j].end < blocks[i].start)

RECURSIVE IdsByStart(_, _)
IdsByStart(ids, blocks) ==
    IF ids = {} THEN <<>>
    ELSE LET id == CHOOSE id \in ids : \A u \in ids : blocks[id].start <= blocks[u].start
         IN  <<id>> \o IdsByStart(ids \ {id}, blocks)

\* str.splitlines(): the lines without their newlines
LinesOf(text) == LET ls == splitlines(text) IN [k \in 1..Len(ls) |-> rstrip(ls[k], NL)]

\* "\n".join(lines), with a final newline if asked
RECURSIVE JoinLines(_, _)
JoinLines(lines, final_newline) ==
    IF lines = <<>> THEN <<>>
    ELSE IF Len(lines) = 1 THEN lines[1] \o (IF final_newline THEN <<NL>> ELSE <<>>)
    ELSE lines[1] \o <<NL>> \o JoinLines(Tail(lines), final_newline)

\* a variant that leaves the candidate's own block in place
enforce_keeping_candidate(o, candidate) ==
    LET cb == find_ignore_blocks(candidate)
        ob == find_ignore_blocks(o)
    IN  {[text |-> candidate,
          enforced |-> DOMAIN ob \cap DOMAIN cb,
          warnings |-> DOMAIN ob \ DOMAIN cb]}

\* one id of ours after the other: the candidate's line range of that id is
\* replaced by the lines of ours; a block the candidate lacks is inserted at
\* the line anchor[id] and reported as a warning
RECURSIVE EnforceLoop(_, _, _, _, _)
EnforceLoop(ids, ours_lines, ob, anchor, st) ==
    IF ids = <<>> THEN st
    ELSE LET id == Head(ids)
             cb == BlocksOfLines(st.lines)
             block == Slice(ours_lines, ob[id].start, ob[id].end + 1)
             next == IF id \in DOMAIN cb
                     THEN [lines |-> Slice(st.lines, 0, cb[id].start) \o block
                                     \o Slice(st.lines, cb[id].end + 1, Len(st.lines)),
                           enforced |-> st.enforced \cup {id},
                           warnings |-> st.warnings]
                     ELSE LET at == Min(anchor[id], Len(st.lines))
                          IN  [lines |-> Slice(st.lines, 0, at) \o block
                                         \o Slice(st.lines, at, Len(st.lines)),
                               enforced |-> st.enforced,
                               warnings |-> st.warnings \cup {id}]
         IN  EnforceLoop(Tail(ids), ours_lines, ob, anchor, next)

\* the results the enforcer may give, one for each choice of the places at
\* which blocks are inserted; the result keeps the candidate's final newline
enforce_ours_blocks(o, candidate) ==
    LET ours_lines == LinesOf(o)
        candidate_lines == LinesOf(candidate)
        ob == find_ignore_blocks(o)
        cb == BlocksOfLines(candidate_lines)
        ids == IdsByStart(DOMAIN ob, ob)
        final_newline == endswith(candidate, NL)
        \* the ids that may have to be inserted: those the candidate lacks,
        \* and any id when blocks of the candidate share lines, since one
        \* substitution can then take away the sentinels of another block
        missing == IF Disjoint(cb) THEN DOMAIN ob \ DOMAIN cb ELSE DOMAIN ob
    IN  {LET st == EnforceLoop(ids, ours_lines, ob, anchor,
                       [lines |-> candidate_lines, enforced |-> {}, warnings |-> {}])
         IN  [text |-> JoinLines(st.lines, final_newline),
              enforced |-> st.enforced, warnings |-> st.warnings]
           : anchor \in [missing -> 0..Len(candidate_lines)]}

-----------------------------------------------------------------------------
(* utils/merge_utils.py *)

LocalMarker == <<"<<<<<<< LOCAL", NL>>
Separator == <<"=======", NL>>
TemplateMarker == <<">>>>>>> TEMPLATE", NL>>

\* the last line of a list gets a newline if it has none
EnsureLastNewline(ls) ==
    IF ls # <<>> /\ ~endswith(ls[Len(ls)], NL)
    THEN [ls EXCEPT ![Len(ls)] = @ \o <<NL>>]
    ELSE ls

_create_conflict(ours_chunk, theirs_chunk) ==
    LET c1 == EnsureLastNewline(<<LocalMarker>> \o ours_chunk)
        c2 == EnsureLastNewline(c1 \o <<Separator>> \o theirs_chunk)
    IN  c2 \o <<TemplateMarker>>

_is_trivial_trailing_newline_diff(ours_chunk, theirs_chunk, i2, j2, ours_lines, theirs_lines) ==
    /\ Len(ours_chunk) = 1
    /\ Len(theirs_chunk) = 1
    /\ rstrip(ours_chunk[1], NL) = rstrip(theirs_chunk[1], NL)
    /\ i2 = Len(ours_lines)
    /\ j2 = Len(theirs_lines)

_is_only_trailing_newline_addition(ours_chunk, i2, ours_lines) ==
    /\ Len(ours_chunk) = 1
    /\ ours_chunk[1] = <<NL>>
    /\ i2 = Len(ours_lines)

RECURSIVE MergeSimpleOps(_, _, _)
MergeSimpleOps(ops, ours_lines, theirs_lines) ==
    IF ops = <<>> THEN <<>>
    ELSE LET op == Head(ops)
             tag == op[1]
             i1 == op[2]
             i2 == op[3]
             j1 == op[4]
             j2 == op[5]
             ours_chunk == Slice(ours_lines, i1, i2)
             theirs_chunk == IF tag = "replace" THEN Slice(theirs_lines, j1, j2) ELSE <<>>
             out == IF tag = "equal" THEN Slice(ours_lines, i1, i2)
                    ELSE IF tag = "insert" THEN Slice(theirs_lines, j1, j2)
                    ELSE IF _is_trivial_trailing_newline_diff(
                                ours_chunk, theirs_chunk, i2, j2, ours_lines, theirs_lines)
                         THEN theirs_chunk
                    ELSE IF _is_only_trailing_newline_addition(ours_chunk, i2, ours_lines)
                         THEN <<>>
                    ELSE _create_conflict(ours_chunk, theirs_chunk)
         IN  out \o MergeSimpleOps(Tail(ops), ours_lines, theirs_lines)

_merge_simple(ours_lines, theirs_lines) ==
    MergeSimpleOps(get_opcodes(ours_lines, theirs_lines), ours_lines, theirs_lines)

\* blocks overlapping the line range [start, end), sorted by their start
_find_overlapping_blocks(start, end, blocks) ==
    {id \in DOMAIN blocks : blocks[id].start < end /\ blocks[id].end >= start}

RECURSIVE SortByStart(_, _)
SortByStart(ids, blocks) ==
    IF ids = {} THEN <<>>
    ELSE LET id == CHOOSE id \in ids : \A u \in ids : blocks[id].start <= blocks[u].start
         IN  <<blocks[id]>> \o SortByStart(ids \ {id}, blocks)

RECURSIVE SplitLoop(_, _, _, _, _, _)
SplitLoop(spans, start_line, ours_chunk, theirs_chunk, res, pos) ==
    IF spans = <<>>
    THEN IF pos < start_line + Len(ours_chunk)
         THEN LET post_ours == Slice(ours_chunk, pos - start_line, Len(ours_chunk))
                  post_theirs == IF Len(theirs_chunk) > pos - start_line
                                 THEN Slice(theirs_chunk, pos - start_line, Len(theirs_chunk))
                                 ELSE <<>>
              IN  IF post_ours # <<>> \/ post_theirs # <<>>
                  THEN res \o _merge_simple(post_ours, post_theirs)
                  ELSE res
         ELSE res
    ELSE LET span == Head(spans)
             pre_ours == Slice(ours_chunk, pos - start_line, span.start - start_line)
             pre_theirs == IF Len(theirs_chunk) > pos - start_line
                           THEN Slice(theirs_chunk, pos - start_line, span.start - start_line)
                           ELSE <<>>
             res1 == IF pos < span.start /\ (pre_ours # <<>> \/ pre_theirs # <<>>)
                     THEN res \o _merge_simple(pre_ours, pre_theirs)
                     ELSE res
             block_start == Max(0, span.start - start_line)
             block_end == Min(Len(ours_chunk), span.end + 1 - start_line)
             block_lines == Slice(ours_chunk, block_start, block_end)
             res2 == IF block_lines # <<>>
                     THEN (IF res1 # <<>> /\ res1[Len(res1)] # <<>>
                           THEN EnsureLastNewline(res1) ELSE res1) \o block_lines
                     ELSE res1
         IN  SplitLoop(Tail(spans), start_line, ours_chunk, theirs_chunk, res2, span.end + 1)

_split_around_blocks(start_line, ours_chunk, theirs_chunk, overlapping) ==
    SplitLoop(overlapping, start_line, ours_chunk, theirs_chunk, <<>>, start_line)

RECURSIVE MergeBlocksOps(_, _, _, _)
MergeBlocksOps(ops, ours_lines, theirs_lines, blocks) ==
    IF ops = <<>> THEN <<>>
    ELSE LET op == Head(ops)
             i1 == op[2]
             i2 == op[3]
             ours_chunk == Slice(ours_lines, i1, i2)
             theirs_chunk == Slice(theirs_lines, op[4], op[5])
             overlapping == _find_overlapping_blocks(i1, i2, blocks)
             out == IF op[1] = "equal" THEN ours_chunk
                    ELSE IF overlapping = {} THEN _merge_simple(ours_chunk, theirs_chunk)
                    ELSE _split_around_blocks(i1, ours_chunk, theirs_chunk,
                                              SortByStart(overlapping, blocks))
         IN  out \o MergeBlocksOps(Tail(ops), ours_lines, theirs_lines, blocks)

_merge_with_blocks(ours_lines, theirs_lines, blocks) ==
    MergeBlocksOps(get_opcodes(ours_lines, theirs_lines), ours_lines, theirs_lines, blocks)

\* a variant that returns the merged text as it is
_normalize_trailing_newline_skipped(res, template) == res

\* merge_utils._normalize_trailing_newline
_normalize_trailing_newline(res, template) ==
    IF template = <<>> THEN res
    ELSE IF endswith(template, NL)
         THEN (IF endswith(res, NL) THEN res ELSE res \o <<NL>>)
         ELSE rstrip(res, NL)

merge_with_conflicts(o, t) ==
    LET ours_lines == splitlines(o)
        theirs_lines == splitlines(t)
        ours_blocks == find_ignore_blocks(o)
        result_lines == IF DOMAIN ours_blocks = {}
                        THEN _merge_simple(ours_lines, theirs_lines)
                        ELSE _merge_with_blocks(ours_lines, theirs_lines, ours_blocks)
    IN  _normalize_trailing_newline(Flatten(result_lines), t)

-----------------------------------------------------------------------------
(* core.py: the merge apply_changes performs *)

CoreLocalMarker == <<"<<<<<<< LOCAL (current)", NL>>
CoreRemoteMarker == <<">>>>>>> REMOTE (template)", NL>>

\* list(difflib.unified_diff(a, b, n=0)) is non-empty exactly when the line
\* lists differ
unified_diff_nonempty(a, b) == a # b

_get_baseline_content == <<>>

_merge_with_conflicts(local_content, remote_content) ==
    [text |-> CoreLocalMarker
                \o (IF endswith(local_content, NL)
                    THEN local_content ELSE local_content \o <<NL>>)
                \o Separator
                \o (IF endswith(remote_content, NL)
                    THEN remote_content ELSE remote_content \o <<NL>>)
                \o CoreRemoteMarker,
     has_conflicts |-> TRUE]

_three_way_merge(base_content, local_content, remote_content) ==
    LET base_lines == splitlines(base_content)
        local_lines == splitlines(local_content)
        remote_lines == splitlines(remote_content)
    IN  IF ~unified_diff_nonempty(base_lines, local_lines)
        THEN [text |-> remote_content, has_conflicts |-> FALSE]
        ELSE IF ~unified_diff_nonempty(base_lines, remote_lines)
        THEN [text |-> local_content, has_conflicts |-> FALSE]
        ELSE _merge_with_conflicts(local_content, remote_content)

-----------------------------------------------------------------------------
(* Texts the text operations are run on *)

Letters == {<<"a">>, <<"b">>}
LineContents == Letters \cup {<<>>}

RECURSIVE SeqsUpTo(_, _)
SeqsUpTo(S, n) ==
    IF n = 0 THEN {<<>>}
    ELSE LET shorter == SeqsUpTo(S, n - 1)
         IN  shorter \cup {Append(q, x) : q \in shorter, x \in S}

\* every text of at most n lines over the given line contents; the last line
\* may lack its newline
TextsOf(contents, n) ==
    LET full == {c \o <<NL>> : c \in contents}
    IN  {Flatten(ls) : ls \in SeqsUpTo(full, n)}
        \cup {Flatten(ls) \o c : ls \in SeqsUpTo(full, n - 1), c \in contents}

Texts == TextsOf(LineContents, MaxLines)

NoText == <<"(none)">>
NoPath == <<"(none)">>

ConflictMarkers == {"<<<<<<< LOCAL", "=======", ">>>>>>> TEMPLATE",
                    "<<<<<<< LOCAL (current)", ">>>>>>> REMOTE (template)"}

HasConflictMarkers(text) == \E k \in 1..Len(text) : text[k] \in ConflictMarkers

-----------------------------------------------------------------------------
(* Paths and patterns (utils/fs_utils.py, core.py) *)

\* a path or pattern from its spelling, one token per character
P_d_x == <<"d", "/", "x">>
P_d_y == <<"d", "/", "y">>
P_d_e_x == <<"d", "/", "e", "/", "x">>
P_y == <<"y">>
DirGlob(dir) == dir \o <<"/", "*", "*">>
Wild(dir) == dir \o <<"/", "*">>
OrphanSuffix == <<".", "o", "r", "p", "h", "a", "n", "e", "d">>

startswith(s, t) == Len(s) >= Len(t) /\ SubSeq(s, 1, Len(t)) = t

\* the "/"-separated parts of a path
RECURSIVE SplitSlash(_)
SplitSlash(s) ==
    IF \E k \in 1..Len(s) : s[k] = "/"
    THEN LET k == CHOOSE k \in 1..Len(s) : s[k] = "/" /\ \A m \in 1..(k - 1) : s[m] # "/"
         IN  <<SubSeq(s, 1, k - 1)>> \o SplitSlash(SubSeq(s, k + 1, Len(s)))
    ELSE <<s>>

RECURSIVE JoinSlash(_)
JoinSlash(parts) ==
    IF parts = <<>> THEN <<>>
    ELSE IF Len(parts) = 1 THEN parts[1]
    ELSE parts[1] \o <<"/">> \o JoinSlash(Tail(parts))

\* PurePosixPath(p).as_posix(): empty and "." parts are dropped, a leading
\* slash is kept, the empty path is "."
posix(p) ==
    LET parts == SelectSeq(SplitSlash(p), LAMBDA q : q # <<>> /\ q # <<".">>)
        body == JoinSlash(parts)
    IN  IF startswith(p, <<"/">>) THEN <<"/">> \o body
        ELSE IF body = <<>> THEN <<".">>
        ELSE body

\* fnmatch.fnmatch on a POSIX system: "*" matches any run of characters
\* (slashes included), "?" any one character, anything else itself
RECURSIVE fnmatch(_, _)
fnmatch(name, pat) ==
    IF pat = <<>> THEN name = <<>>
    ELSE IF Head(pat) = "*"
         THEN \E k \in 0..Len(name) : fnmatch(SubSeq(name, k + 1, Len(name)), Tail(pat))
    ELSE IF name = <<>> THEN FALSE
    ELSE IF Head(pat) = "?" THEN fnmatch(Tail(name), Tail(pat))
    ELSE Head(pat) = Head(name) /\ fnmatch(Tail(name), Tail(pat))

\* fs_utils.match
match(path, pattern) ==
    LET pth == posix(path)
        pat == posix(pattern)
    IN  IF Len(pat) >= 3 /\ SubSeq(pat, Len(pat) - 2, Len(pat)) = <<"/", "*", "*">>
        THEN LET pre == SubSeq(pat, 1, Len(pat) - 3)
             IN  pth = pre \/ startswith(pth, pre \o <<"/">>)
        ELSE fnmatch(pth, pat)

\* fs_utils.is_ignored
is_ignored(rel, ignore_patterns) ==
    \E k \in 1..Len(ignore_patterns) : match(rel, ignore_patterns[k])

NoRule == [path |-> NoPath, strategy |-> "none"]

\* sorted(matches, key)[0]: the least key, the first declared among equals
FirstByKey(matches, KeyClass(_), KeyLen(_)) ==
    IF matches = <<>> THEN NoRule
    ELSE LET Less(r, q) == \/ KeyClass(r) < KeyClass(q)
                           \/ KeyClass(r) = KeyClass(q) /\ KeyLen(r) < KeyLen(q)
             k == CHOOSE k \in 1..Len(matches) :
                     /\ \A m \in 1..Len(matches) : ~Less(matches[m], matches[k])
                     /\ \A m \in 1..(k - 1) : Less(matches[k], matches[m])
         IN  matches[k]

\* a variant that takes the first declared match, without ranking
best_rule_first_declared(path, managed_rules) ==
    LET matches == SelectSeq(managed_rules, LAMBDA r : match(path, r.path))
    IN  IF matches = <<>> THEN NoRule ELSE matches[1]

\* fs_utils.best_rule
best_rule(path, managed_rules) ==
    LET matches == SelectSeq(managed_rules, LAMBDA r : match(path, r.path))
        KeyClass(r) ==
            LET p == posix(r.path)
            IN  IF p = posix(path) THEN 0
                ELSE IF Len(p) >= 3 /\ SubSeq(p, Len(p) - 2, Len(p)) = <<"/", "*", "*">> THEN 1
                ELSE IF \E k \in 1..Len(p) : p[k] = "*" THEN 2
                ELSE 3
        KeyLen(r) == 0 - Len(posix(r.path))
    IN  FirstByKey(matches, KeyClass, KeyLen)

\* core.RetemplarCore._matches_pattern
_matches_pattern(file_path, pattern) ==
    IF Len(pattern) >= 3 /\ SubSeq(pattern, Len(pattern) - 2, Len(pattern)) = <<"/", "*", "*">>
    THEN LET dir_prefix == SubSeq(pattern, 1, Len(pattern) - 3)
         IN  startswith(file_path, dir_prefix \o <<"/">>) \/ file_path = dir_prefix
    ELSE IF \E k \in 1..Len(pattern) : pattern[k] = "*" THEN FALSE
    ELSE file_path = pattern

\* core.RetemplarCore._is_ignored
_is_ignored(file_path, ignore_patterns) ==
    \E k \in 1..Len(ignore_patterns) : _matches_pattern(file_path, ignore_patterns[k])

\* core.RetemplarCore._find_best_matching_rule
_find_best_matching_rule(file_path, managed_paths) ==
    LET matching_rules == SelectSeq(managed_paths,
                                    LAMBDA r : _matches_pattern(file_path, r.path))
        KeyClass(r) ==
            IF Contains(r.path, <<"/", "*", "*">>) THEN 1
            ELSE IF \E k \in 1..Len(r.path) : r.path[k] = "*" THEN 2
            ELSE 0
        KeyLen(r) == Len(r.path)
    IN  FirstByKey(matching_rules, KeyClass, KeyLen)

-----------------------------------------------------------------------------
(* core.py: plan_upgrade *)

NoLock == [exists |-> FALSE]

orphaned_path(file_path) == file_path \o OrphanSuffix

Depth(path) == Cardinality({k \in 1..Len(path) : path[k] = "/"})

\* the orders in which Path.rglob("*") can list the files of a tree: a
\* directory's own files come before those of its subdirectories, the order
\* within a directory is the file system's
rglob(tree) ==
    LET files == DOMAIN tree
        n == Cardinality(files)
    IN  {o \in [1..n -> files] :
            /\ \A i, j \in 1..n : i # j => o[i] # o[j]
            /\ \A i, j \in 1..n : i < j => Depth(o[i]) <= Depth(o[j])}

_file_was_modified_locally(repo_tree, repo_file) == repo_file \in DOMAIN repo_tree

\* the loop over the files of the target template
RECURSIVE PlanTargetFiles(_, _, _, _)
PlanTargetFiles(files, lk, repo_tree, acc0) ==
    LET Result(acc) ==
        IF files = <<>> THEN acc
        ELSE LET file_rel_path == Head(files)
                 matching_rule == _find_best_matching_rule(file_rel_path, lk.managed_paths)
                 exists == file_rel_path \in DOMAIN repo_tree
                 strategy == matching_rule.strategy
                 type == IF strategy = "enforce"
                         THEN (IF exists THEN "overwrite" ELSE "create")
                         ELSE IF strategy = "preserve"
                         THEN (IF exists THEN "skip" ELSE "create")
                         ELSE IF strategy = "merge"
                         THEN (IF exists THEN "conflict" ELSE "create")
                         ELSE "unknown"
                 change == [file |-> file_rel_path, strategy |-> strategy,
                            type |-> type, matched_rule |-> matching_rule.path]
                 next == IF \/ _is_ignored(file_rel_path, lk.ignore_paths)
                            \/ matching_rule = NoRule
                            \/ file_rel_path \in acc.processed
                         THEN acc
                         ELSE [changes |-> Append(acc.changes, change),
                               conflicts |-> acc.conflicts
                                    + (IF strategy = "merge" /\ exists THEN 1 ELSE 0),
                               processed |-> acc.processed \cup {file_rel_path}]
             IN  PlanTargetFiles(Tail(files), lk, repo_tree, next)
    IN  CHOOSE r \in {Result(acc) : acc \in {acc0}} : TRUE

\* the files of the repository that match one managed path and are missing
\* from the target template
RECURSIVE PlanMissingFiles(_, _, _, _, _, _)
PlanMissingFiles(files, managed_path, lk, repo_tree, target_tree, acc0) ==
    LET Result(acc) ==
        IF files = <<>> THEN acc
        ELSE LET file_rel_path == Head(files)
                 strategy == managed_path.strategy
                 type == IF strategy = "enforce" THEN "delete"
                         ELSE IF strategy = "preserve" THEN "keep"
                         ELSE IF strategy = "merge"
                         THEN (IF _file_was_modified_locally(repo_tree, file_rel_path)
                               THEN "orphan" ELSE "delete")
                         ELSE "unknown"
                 change == [file |-> file_rel_path, strategy |-> strategy,
                            type |-> type, matched_rule |-> managed_path.path]
                 next == IF \/ file_rel_path \in DOMAIN target_tree
                            \/ _is_ignored(file_rel_path, lk.ignore_paths)
                            \/ file_rel_path \in acc.processed
                         THEN acc
                         ELSE IF file_rel_path \notin DOMAIN repo_tree
                         THEN [acc EXCEPT !.processed = @ \cup {file_rel_path}]
                         ELSE [changes |-> Append(acc.changes, change),
                               conflicts |-> acc.conflicts + (IF type = "orphan" THEN 1 ELSE 0),
                               processed |-> acc.processed \cup {file_rel_path}]
             IN  PlanMissingFiles(Tail(files), managed_path, lk, repo_tree, target_tree, next)
    IN  CHOOSE r \in {Result(acc) : acc \in {acc0}} : TRUE

\* the loop over the managed paths
RECURSIVE PlanManagedPaths(_, _, _, _, _, _)
PlanManagedPaths(managed_paths, lk, repo_tree, target_tree, rorder, acc) ==
    IF managed_paths = <<>> THEN acc
    ELSE LET managed_path == Head(managed_paths)
             repo_files_matching_pattern ==
                 SelectSeq(rorder, LAMBDA f : _matches_pattern(f, managed_path.path))
         IN  PlanManagedPaths(Tail(managed_paths), lk, repo_tree, target_tree, rorder,
                 PlanMissingFiles(repo_files_matching_pattern, managed_path,
                                  lk, repo_tree, target_tree, acc))

\* torder and rorder are the orders in which the target template and the
\* repository are listed
plan_upgrade(lk, repo_tree, target_tree, torder, rorder) ==
    LET first == PlanTargetFiles(torder, lk, repo_tree,
                     [changes |-> <<>>, conflicts |-> 0, processed |-> {}])
        all == PlanManagedPaths(lk.managed_paths, lk, repo_tree, target_tree, rorder, first)
    IN  [changes |-> all.changes, conflicts |-> all.conflicts]

-----------------------------------------------------------------------------
(* core.py: apply_changes *)

\* a tree with one more file, or with the file's content replaced
WriteFile(tree, path, content) ==
    [q \in DOMAIN tree \cup {path} |-> IF q = path THEN content ELSE tree[q]]

RemoveFile(tree, path) == [q \in DOMAIN tree \ {path} |-> tree[q]]

_copy_file(tree, target_tree, path) == WriteFile(tree, path, target_tree[path])

_delete_file(tree, path) == IF path \in DOMAIN tree THEN RemoveFile(tree, path) ELSE tree

\* Path.rename replaces a file that is already at the destination
_mark_orphaned(tree, path) ==
    IF path \in DOMAIN tree
    THEN WriteFile(RemoveFile(tree, path), orphaned_path(path), tree[path])
    ELSE tree

\* content that is not text: reading it as UTF-8 raises UnicodeDecodeError
Binary == <<"(binary)">>

\* LockfileManager.LOCKFILE_NAME, and the text of the record in that file
LOCKFILE_NAME == <<".retemplar", ".lock">>
LockText == <<"(lock record)">>

\* a lock file whose content is not a lock record
UnreadableLock(text) == [exists |-> TRUE, readable |-> FALSE, text |-> text]

IsReadable(lk) == lk.exists /\ "managed_paths" \in DOMAIN lk

\* the files under the repository root: the tree and the lock file
RepoFiles(lk, tree) ==
    IF ~lk.exists THEN tree
    ELSE WriteFile(tree, LOCKFILE_NAME, IF IsReadable(lk) THEN LockText ELSE lk.text)

\* what is at the lock path in a set of repository files
LockOf(lk, files) ==
    IF LOCKFILE_NAME \notin DOMAIN files THEN NoLock
    ELSE IF files[LOCKFILE_NAME] = LockText /\ IsReadable(lk) THEN lk
    ELSE UnreadableLock(files[LOCKFILE_NAME])

\* a variant that takes the lock file to be there
exists_assumed(lk) == TRUE

\* LockfileManager.exists
exists(lk) == lk.exists

\* LockfileManager.read: the record, or the exception raised
read(lk) ==
    IF ~exists(lk) THEN "LockfileNotFoundError"
    ELSE IF ~IsReadable(lk) THEN "LockfileValidationError"
    ELSE "ok"

NoPlan == [changes |-> <<>>, conflicts |-> 0]
NoResult == [applied_version |-> "", files_changed |-> 0, conflicts_resolved |-> 0]

\* Python's None
None == "none"

\* RetemplarLock._dedupe_managed: one rule per path, the first kept
RECURSIVE _dedupe_managed(_)
_dedupe_managed(managed_paths) ==
    IF managed_paths = <<>> THEN <<>>
    ELSE LET r == managed_paths[Len(managed_paths)]
             front == SubSeq(managed_paths, 1, Len(managed_paths) - 1)
         IN  IF \E k \in 1..Len(front) : front[k].path = r.path
             THEN _dedupe_managed(front)
             ELSE Append(_dedupe_managed(front), r)

\* RetemplarLock._sync_version
_sync_version(template) == template.kind \o "@" \o template.ref

\* the record a lock file gives when it is read: the validators of
\* RetemplarLock run on what was written, which leaves out the None fields
model_validate(data) ==
    [data EXCEPT !.managed_paths = _dedupe_managed(@),
                 !.version = _sync_version(data.template),
                 !.applied_ref = IF @ = None THEN data.template.ref ELSE @,
                 !.applied_commit = IF @ = None THEN data.template.commit ELSE @]

NoFault == [item |-> 0, partial |-> FALSE, lock_write |-> FALSE]

\* the state of the apply loop before its first item
LoopStart(files) ==
    [tree |-> files, files_changed |-> 0, conflicts_resolved |-> 0,
     raised |-> "none", started |-> 0, failed_at |-> 0, partial |-> FALSE]

\* one change of the plan; the file system fails the item f.item, if that
\* item calls it, and then may leave the file being written empty
ApplyChange(change, target_tree, f, st) ==
         LET file_path == change.file
             strategy == change.strategy
             change_type == change.type
             k == st.started + 1
             copies == \/ strategy = "enforce" /\ change_type \in {"create", "overwrite"}
                       \/ strategy = "preserve" /\ change_type = "create"
                       \/ strategy = "merge" /\ change_type = "create"
             merges == strategy = "merge" /\ change_type = "conflict"
             removes == \/ strategy = "enforce" /\ change_type = "delete"
                        \/ strategy = "merge" /\ change_type \in {"delete", "orphan"}
             undecodable == merges /\ Binary \in {st.tree[file_path], target_tree[file_path]}
             m == _three_way_merge(_get_baseline_content, st.tree[file_path],
                                   target_tree[file_path])
             done ==
                IF strategy = "enforce" /\ change_type \in {"create", "overwrite"}
                THEN [st EXCEPT !.tree = _copy_file(st.tree, target_tree, file_path),
                                !.files_changed = @ + 1]
                ELSE IF strategy = "enforce" /\ change_type = "delete"
                THEN [st EXCEPT !.tree = _delete_file(st.tree, file_path),
                                !.files_changed = @ + 1]
                ELSE IF strategy = "preserve" /\ change_type = "create"
                THEN [st EXCEPT !.tree = _copy_file(st.tree, target_tree, file_path),
                                !.files_changed = @ + 1]
                ELSE IF strategy = "merge" /\ change_type = "conflict"
                THEN [st EXCEPT !.tree = WriteFile(st.tree, file_path, m.text),
                                !.files_changed = @ + 1,
                                !.conflicts_resolved =
                                    @ + (IF m.has_conflicts THEN 1 ELSE 0)]
                ELSE IF strategy = "merge" /\ change_type = "create"
                THEN [st EXCEPT !.tree = _copy_file(st.tree, target_tree, file_path),
                                !.files_changed = @ + 1]
                ELSE IF strategy = "merge" /\ change_type = "delete"
                THEN [st EXCEPT !.tree = _delete_file(st.tree, file_path),
                                !.files_changed = @ + 1]
                ELSE IF strategy = "merge" /\ change_type = "orphan"
                THEN [st EXCEPT !.tree = _mark_orphaned(st.tree, file_path),
                                !.conflicts_resolved = @ + 1]
                ELSE st
             next ==
                IF undecodable
                THEN [st EXCEPT !.raised = "UnicodeDecodeError", !.failed_at = k]
                ELSE IF f.item = k /\ (copies \/ merges \/ removes)
                THEN [st EXCEPT !.raised = "OSError", !.failed_at = k,
                                !.partial = f.partial /\ (copies \/ merges),
                                !.tree = IF f.partial /\ (copies \/ merges)
                                         THEN WriteFile(st.tree, file_path, <<>>)
                                         ELSE st.tree]
                ELSE done
         IN  [next EXCEPT !.started = k]

\* the loop over the changes of the plan, up to the first that raises
RECURSIVE ApplyChanges(_, _, _, _)
ApplyChanges(changes, target_tree, f, st0) ==
    LET Result(st) ==
            IF changes = <<>> \/ st.raised # "none" THEN st
            ELSE ApplyChanges(Tail(changes), target_tree, f,
                              ApplyChange(Head(changes), target_tree, f, st))
    IN  CHOOSE r \in {Result(st) : st \in {st0}} : TRUE

\* lk and repo_tree are the lock record and the files of the repository
\* beside the lock file; f is the failure the file system deals
apply_changes(lk, repo_tree, target_tree, target, torder, rorder, f) ==
    LET files == RepoFiles(lk, repo_tree)
        Loop(p) == ApplyChanges(p.changes, target_tree, f, LoopStart(files))
        Finish(p, st) ==
            LET current_lock == LockOf(lk, st.tree)
                tree == IF LOCKFILE_NAME \in DOMAIN st.tree
                        THEN RemoveFile(st.tree, LOCKFILE_NAME) ELSE st.tree
                Raised(exception) ==
                    [plan |-> p, tree |-> tree, lock |-> current_lock,
                     result |-> NoResult, failed_at |-> st.failed_at,
                     partial |-> st.partial, outcome |-> exception]
            IN  IF st.raised # "none" THEN Raised(st.raised)
                ELSE IF read(current_lock) # "ok" THEN Raised(read(current_lock))
                ELSE IF f.lock_write THEN Raised("LockfileError")
                ELSE [plan |-> p,
                      tree |-> tree,
                      lock |-> model_validate(
                                  [current_lock EXCEPT !.applied_ref = target.ref,
                                                       !.applied_commit = target.commit]),
                      result |-> [applied_version |-> target.ref,
                                  files_changed |-> st.files_changed,
                                  conflicts_resolved |-> st.conflicts_resolved],
                      failed_at |-> 0, partial |-> FALSE, outcome |-> "ok"]
    IN  IF read(lk) # "ok"
        THEN [plan |-> NoPlan, tree |-> repo_tree, lock |-> lk, result |-> NoResult,
              failed_at |-> 0, partial |-> FALSE, outcome |-> read(lk)]
        ELSE CHOOSE r \in UNION {{Finish(p, st) : st \in {Loop(p)}}
                                    : p \in {plan_upgrade(lk, files, target_tree,
                                                          torder, rorder)}} : TRUE

-----------------------------------------------------------------------------
(* The repository, its lock record and the target template *)

Strategies == {"enforce", "merge", "preserve"}

FsPaths == {P_d_x, orphaned_path(P_d_x), P_y}
RulePatterns == {DirGlob(<<"d">>), P_d_x}
IgnoreLists == {<<>>, <<P_d_x>>, <<Wild(<<"d">>)>>, <<orphaned_path(P_d_x)>>}

TemplateText == <<"a", NL>>
\* what a repository file may hold at the start: a local text, and for d/x
\* also the template's text
LocalTexts(path) == IF path = P_d_x THEN {<<"a", NL>>, <<"b">>} ELSE {<<"b">>}

\* lists of at most n rules; the lock record keeps one rule per path
RuleListsOf(patterns, strategies, n) ==
    {rs \in SeqsUpTo([path : patterns, strategy : strategies], n) :
        \A i, j \in 1..Len(rs) : i # j => rs[i].path # rs[j].path}

TreesOf(paths, ContentsOf(_)) ==
    UNION {{t \in [S -> UNION {ContentsOf(q) : q \in S}] : \A q \in S : t[q] \in ContentsOf(q)}
              : S \in SUBSET paths}

TemplateTexts(path) == {TemplateText}

EmptyTree == [q \in {} |-> <<>>]
NoReport == [enforced |-> {}, warnings |-> {}]

CurrentRef == "v1"
Target == [ref |-> "v2", commit |-> None]

\* LockfileManager.create_adoption_lock, with the scope set as the callers do
AdoptionLock(managed_paths, ignore_paths) ==
    [exists |-> TRUE,
     template |-> [kind |-> "rat", ref |-> CurrentRef, commit |-> None],
     version |-> "rat@" \o CurrentRef,
     managed_paths |-> managed_paths,
     ignore_paths |-> ignore_paths,
     render_rules |-> <<>>,
     applied_ref |-> CurrentRef,
     applied_commit |-> None]

TextIdle == ours = NoText /\ theirs = NoText /\ merged = NoText /\ report = NoReport
MatchIdle == mpath = NoPath /\ mrules = <<>> /\ mbest = NoRule
OpIdle == outcome = "none" /\ fault = NoFault
WriteIdle == pending = NoLock /\ tmpfile = NoLock
FsIdle == /\ OpIdle
          /\ lock = NoLock /\ repo = EmptyTree /\ tmpl = EmptyTree /\ before = EmptyTree
          /\ plan = NoPlan /\ result = NoResult /\ applies = 0

Init ==
    /\ lock \in {AdoptionLock(rs, ig) :
                    rs \in RuleListsOf(RulePatterns, Strategies, MaxRules), ig \in IgnoreLists}
    /\ repo \in TreesOf(FsPaths, LocalTexts)
    /\ tmpl \in TreesOf(FsPaths, TemplateTexts)
    /\ before = EmptyTree
    /\ plan = NoPlan
    /\ result = NoResult
    /\ applies = 0
    /\ pc = "init"
    /\ OpIdle
    /\ WriteIdle
    /\ TextIdle
    /\ MatchIdle

\* core.RetemplarCore.plan_upgrade
Plan ==
    /\ pc \in {"init", "apply", "drift", "read"}
    /\ IF read(lock) = "ok"
       THEN \E torder \in rglob(tmpl), rorder \in rglob(RepoFiles(lock, repo)) :
               plan' = plan_upgrade(lock, RepoFiles(lock, repo), tmpl, torder, rorder)
       ELSE plan' = NoPlan
    /\ outcome' = read(lock)
    /\ fault' = NoFault
    /\ pc' = "plan"
    /\ UNCHANGED <<lock, repo, tmpl, before, result, applies,
                   textvars, matchvars, writevars>>

\* core.RetemplarCore.apply_changes, the file system failing as in faults
ApplyWith(faults) ==
    /\ applies < MaxApplies
    /\ \E f \in faults, torder \in rglob(tmpl), rorder \in rglob(RepoFiles(lock, repo)) :
          \E r \in {apply_changes(lock, repo, tmpl, Target, torder, rorder, f)} :
              /\ f.item = r.failed_at \/ (f.item = 0 /\ r.outcome = "UnicodeDecodeError")
              /\ f.partial = r.partial
              /\ f.lock_write <=> r.outcome = "LockfileError"
              /\ plan' = r.plan
              /\ repo' = r.tree
              /\ lock' = r.lock
              /\ result' = r.result
              /\ outcome' = r.outcome
              /\ fault' = f
    /\ before' = repo
    /\ applies' = applies + 1
    /\ pc' = "apply"
    /\ UNCHANGED <<tmpl, textvars, matchvars, writevars>>

\* apply_changes on a file system that does not fail
Apply == ApplyWith({NoFault})

Next == Plan \/ Apply

Spec == Init /\ [][Next]_vars

-----------------------------------------------------------------------------
(* The operations on repositories with and without a lock record, with
   files that are empty or not text, with rules on the lock path, and on a
   file system that fails *)

OpsPatterns == {P_d_x, LOCKFILE_NAME}

\* <<>> is an empty file
OpsLocalTexts(path) == {<<"b">>, <<>>, Binary}
OpsTemplateTexts(path) == IF path = P_d_x THEN {TemplateText, <<>>, Binary} ELSE {TemplateText}

\* the failures the file system may deal during one apply: at one plan item,
\* with or without a file left half written, or at the write of the lock
Faults ==
    {NoFault}
      \cup {[NoFault EXCEPT !.item = k, !.partial = b] : k \in 1..MaxRules, b \in BOOLEAN}
      \cup {[NoFault EXCEPT !.lock_write = TRUE]}

InitOps ==
    /\ lock \in {NoLock} \cup {AdoptionLock(rs, <<>>) :
                                 rs \in RuleListsOf(OpsPatterns, Strategies, MaxRules)}
    /\ repo \in TreesOf({P_d_x}, OpsLocalTexts)
    /\ tmpl \in TreesOf(OpsPatterns, OpsTemplateTexts)
    /\ before = EmptyTree
    /\ plan = NoPlan
    /\ result = NoResult
    /\ applies = 0
    /\ pc = "init"
    /\ OpIdle
    /\ WriteIdle
    /\ TextIdle
    /\ MatchIdle

\* apply_changes on a file system that may fail
ApplyFaulty == ApplyWith(Faults)

\* core.RetemplarCore.detect_drift
DetectDrift ==
    /\ pc # "drift"
    /\ outcome' = read(lock)
    /\ fault' = NoFault
    /\ pc' = "drift"
    /\ UNCHANGED <<lock, repo, tmpl, before, plan, result, applies,
                   textvars, matchvars, writevars>>

\* lockfile.LockfileManager.read
ReadLock ==
    /\ pc # "read"
    /\ outcome' = read(lock)
    /\ fault' = NoFault
    /\ pc' = "read"
    /\ UNCHANGED <<lock, repo, tmpl, before, plan, result, applies,
                   textvars, matchvars, writevars>>

NextOps == Plan \/ ApplyFaulty \/ DetectDrift \/ ReadLock

SpecOps == InitOps /\ [][NextOps]_vars

-----------------------------------------------------------------------------
(* Render rules: fs_utils.apply_render_rules_text, and apply under a lock
   record that holds render rules *)

\* str.replace(old, new): every occurrence of old, left to right, none
\* overlapping another; for the empty old, new goes around every character
RECURSIVE replace(_, _, _)
replace(s, old, new) ==
    IF old = <<>>
    THEN new \o Flatten([k \in 1..Len(s) |-> <<s[k]>> \o new])
    ELSE IF Len(s) < Len(old) THEN s
    ELSE IF startswith(s, old)
    THEN new \o replace(SubSeq(s, Len(old) + 1, Len(s)), old, new)
    ELSE <<Head(s)>> \o replace(Tail(s), old, new)

\* re.compile raises re.error: of the patterns of the model, those with a
\* parenthesis that is not closed
re_error(pattern) ==
    \E k \in 1..Len(pattern) :
        /\ pattern[k] = "("
        /\ ~\E j \in (k + 1)..Len(pattern) : pattern[j] = ")"

\* the pattern, of "." and plain characters, matches at the start of s
re_match(pattern, s) ==
    /\ Len(s) >= Len(pattern)
    /\ \A k \in 1..Len(pattern) :
          IF pattern[k] = "." THEN s[k] # NL ELSE s[k] = pattern[k]

\* re.sub(pattern, repl, s) for a non-empty pattern of "." and plain
\* characters and a replacement without group references
RECURSIVE re_sub(_, _, _)
re_sub(pattern, repl, s) ==
    IF Len(s) < Len(pattern) THEN s
    ELSE IF re_match(pattern, s)
    THEN repl \o re_sub(pattern, repl, SubSeq(s, Len(pattern) + 1, Len(s)))
    ELSE <<Head(s)>> \o re_sub(pattern, repl, Tail(s))

\* the text after the rules, one after another, or the ValueError raised
RECURSIVE apply_render_rules_text(_, _)
apply_render_rules_text(s, rules) ==
    IF rules = <<>> THEN [raised |-> "none", text |-> s]
    ELSE LET r == Head(rules)
         IN  IF r.literal
             THEN apply_render_rules_text(replace(s, r.pattern, r.replacement), Tail(rules))
             ELSE IF re_error(r.pattern)
             THEN [raised |-> "ValueError", text |-> s]
             ELSE apply_render_rules_text(re_sub(r.pattern, r.replacement, s), Tail(rules))

RenderPatterns == {<<"a">>, <<"b">>, <<".">>}
RenderReplacements == {<<"b">>, <<"c">>}
RenderRules == [pattern : RenderPatterns, replacement : RenderReplacements, literal : BOOLEAN]

RenderTemplateTexts(path) == {<<"a", NL>>, <<"a", ".", "a">>}
RenderLocalTexts(path) == {<<"b">>}

InitRender ==
    /\ lock \in {[AdoptionLock(rs, <<>>) EXCEPT !.render_rules = rules] :
                    rs \in RuleListsOf({P_d_x}, Strategies, 1),
                    rules \in SeqsUpTo(RenderRules, MaxRules)}
    /\ repo \in TreesOf({P_d_x}, RenderLocalTexts)
    /\ tmpl \in TreesOf({P_d_x}, RenderTemplateTexts)
    /\ before = EmptyTree
    /\ plan = NoPlan
    /\ result = NoResult
    /\ applies = 0
    /\ pc = "init"
    /\ OpIdle
    /\ WriteIdle
    /\ TextIdle
    /\ MatchIdle

NextRender == Plan \/ Apply

SpecRender == InitRender /\ [][NextRender]_vars

-----------------------------------------------------------------------------
(* schema.py: the construction of a lock record from data *)

\* str.strip, for blanks
RECURSIVE strip(_)
strip(v) ==
    IF v # <<>> /\ Head(v) = " " THEN strip(Tail(v))
    ELSE IF v # <<>> /\ v[Len(v)] = " " THEN strip(SubSeq(v, 1, Len(v) - 1))
    ELSE v

\* schema._posix
_posix(v) == posix(v)

\* TemplateSource._validate_repo: the locator passes
_validate_repo(v) ==
    \/ startswith(v, <<"g", "h", ":">>)
    \/ startswith(v, <<".", "/">>)
    \/ startswith(v, <<"/">>)
    \/ (startswith(v, <<".">>) /\ \E k \in 1..Len(v) : v[k] = "/")

\* ManagedPath._norm_path raises ValueError
_norm_path_raises(v) == v = <<>> \/ strip(v) = <<>>

\* ManagedPath._norm_path
_norm_path(v) == _posix(strip(v))

\* ManagedPath(path, strategy) passes: the path validator and the Literal
\* type of strategy
ManagedPath(r) == ~_norm_path_raises(r.path) /\ r.strategy \in Strategies

\* RenderRule(pattern, replacement, literal) passes: three typed fields, and
\* no validator
RenderRule(r) == r.literal \in BOOLEAN

\* RetemplarLock.model_validate(data): the record, or the ValidationError
RetemplarLock(data) ==
    IF /\ _validate_repo(data.template.repo)
       /\ \A k \in 1..Len(data.managed_paths) : ManagedPath(data.managed_paths[k])
       /\ \A k \in 1..Len(data.render_rules) : RenderRule(data.render_rules[k])
    THEN [raised |-> "none",
          lock |-> model_validate(
                      [data EXCEPT !.managed_paths =
                          [k \in 1..Len(@) |-> [@[k] EXCEPT !.path = _norm_path(@)]]])]
    ELSE [raised |-> "ValidationError", lock |-> NoLock]

SchemaLocators == {<<>>, <<"t">>, <<".", "/", "t">>, <<"/", "t">>,
                   <<"g", "h", ":", "o", "/", "r">>}
SchemaPaths == {<<>>, <<" ">>, P_d_x, <<" ">> \o P_d_x \o <<"/">>}
SchemaStrategies == Strategies \cup {"patch"}
SchemaRuleLists ==
    {<<>>} \cup {<<[pattern |-> pat, replacement |-> <<"b">>, literal |-> lit]>> :
                    pat \in {<<"a">>, <<"(", "a">>}, lit \in BOOLEAN}

\* the data a lock record is built from
SchemaData(locator, path, strategy, rules) ==
    [exists |-> TRUE,
     template |-> [kind |-> "rat", repo |-> locator, ref |-> CurrentRef, commit |-> None],
     version |-> "",
     managed_paths |-> <<[path |-> path, strategy |-> strategy]>>,
     ignore_paths |-> <<>>,
     render_rules |-> rules,
     applied_ref |-> None,
     applied_commit |-> None]

InitSchema ==
    /\ pending \in {SchemaData(locator, path, strategy, rules) :
                       locator \in SchemaLocators, path \in SchemaPaths,
                       strategy \in SchemaStrategies, rules \in SchemaRuleLists}
    /\ tmpfile = NoLock
    /\ pc = "data"
    /\ FsIdle
    /\ TextIdle
    /\ MatchIdle

\* RetemplarLock.model_validate(data), as LockfileManager.read calls it
Construct ==
    /\ pc = "data"
    /\ \E r \in {RetemplarLock(pending)} :
          /\ lock' = r.lock
          /\ outcome' = IF r.raised = "none" THEN "ok" ELSE r.raised
    /\ pc' = "constructed"
    /\ UNCHANGED <<repo, tmpl, before, plan, result, applies, fault,
                   textvars, matchvars, writevars>>

\* fs_utils.apply_render_rules_text(tpl, lock.render_rules) on the text of a
\* template file
RenderText ==
    /\ pc = "constructed"
    /\ outcome = "ok"
    /\ \E tpl \in RenderTemplateTexts(P_d_x) :
          \E r \in {apply_render_rules_text(tpl, lock.render_rules)} :
              /\ theirs' = tpl
              /\ merged' = r.text
              /\ outcome' = IF r.raised = "none" THEN "ok" ELSE r.raised
    /\ pc' = "rendered"
    /\ UNCHANGED <<fsvars, fault, ours, report, matchvars, writevars>>

NextSchema == Construct \/ RenderText

SpecSchema == InitSchema /\ [][NextSchema]_vars

-----------------------------------------------------------------------------
(* lockfile.py: LockfileManager.write, step by step *)

\* Path.with_suffix: the last suffix of the name replaced
with_suffix(path, suffix) == SubSeq(path, 1, Len(path) - 1) \o <<suffix>>

\* a variant that writes the lock file in place
temp_path_in_place(lockfile_path) == lockfile_path

\* the temporary file of LockfileManager.write
temp_path(lockfile_path) == with_suffix(lockfile_path, ".tmp")

\* LockfileManager.validate: the error messages for a record
validate(lk) ==
    {<<"Duplicate managed path", lk.managed_paths[j].path>> :
        j \in {j \in 1..Len(lk.managed_paths) :
                 \E i \in 1..(j - 1) : lk.managed_paths[i].path = lk.managed_paths[j].path}}

\* a file that holds only the beginning of a record's text
PartialLock == UnreadableLock(<<"(partial lock record)">>)

\* the lock file and its temporary file, by path
LockFiles == (LOCKFILE_NAME :> lock) @@ (temp_path(LOCKFILE_NAME) :> tmpfile)

\* the two files after one of them is written, removed or renamed
FilesAre(files) ==
    /\ lock' = files[LOCKFILE_NAME]
    /\ tmpfile' = IF temp_path(LOCKFILE_NAME) = LOCKFILE_NAME THEN tmpfile
                  ELSE files[temp_path(LOCKFILE_NAME)]

WriteRefs == {"v2", "v3"}

\* the records handed to write: the current one with a new applied ref (as
\* apply_changes does), a first record (as adopt_template does), and a record
\* that holds the same managed path twice
WriteRecords(lk) ==
    (IF IsReadable(lk)
     THEN {[lk EXCEPT !.applied_ref = ref] : ref \in WriteRefs}
            \cup {[lk EXCEPT !.managed_paths = @ \o @] : x \in {1}}
     ELSE {AdoptionLock(<<[path |-> P_d_x, strategy |-> "enforce"]>>, <<>>)})

InitWrite ==
    /\ lock \in {NoLock} \cup {AdoptionLock(rs, <<>>) :
                                 rs \in RuleListsOf({P_d_x, P_y}, {"enforce", "merge"}, 1)}
    /\ pending \in WriteRecords(lock)
    /\ tmpfile = NoLock
    /\ applies = 1
    /\ pc = "write"
    /\ outcome = "none"
    /\ fault = NoFault
    /\ repo = EmptyTree /\ tmpl = EmptyTree /\ before = EmptyTree
    /\ plan = NoPlan /\ result = NoResult
    /\ TextIdle
    /\ MatchIdle

WriteFrame == UNCHANGED <<repo, tmpl, before, plan, result, fault, textvars, matchvars>>

\* a further call of write, after the last one returned or raised
WriteBegin ==
    /\ pc \in {"written", "raised"}
    /\ applies < MaxApplies
    /\ pending' \in WriteRecords(lock)
    /\ applies' = applies + 1
    /\ pc' = "write"
    /\ outcome' = "none"
    /\ UNCHANGED <<lock, tmpfile>>
    /\ WriteFrame

\* validation_errors = self.validate(lock)
WriteValidate ==
    /\ pc = "write"
    /\ pc' = IF validate(pending) # {} THEN "except" ELSE "validated"
    /\ UNCHANGED <<lock, tmpfile, pending, applies, outcome>>
    /\ WriteFrame

\* temp_path.write_text(content), its first half: the file is opened for
\* writing, which creates or empties it, unless that fails
WriteOpen ==
    /\ pc = "validated"
    /\ \/ /\ FilesAre([LockFiles EXCEPT ![temp_path(LOCKFILE_NAME)] = PartialLock])
          /\ pc' = "writing"
       \/ /\ UNCHANGED <<lock, tmpfile>>
          /\ pc' = "except"
    /\ UNCHANGED <<pending, applies, outcome>>
    /\ WriteFrame

\* temp_path.write_text(content), its second half: the text is written out,
\* unless that fails
WriteText ==
    /\ pc = "writing"
    /\ \/ /\ FilesAre([LockFiles EXCEPT ![temp_path(LOCKFILE_NAME)] =
                                            model_validate(pending)])
          /\ pc' = "temp_written"
       \/ /\ UNCHANGED <<lock, tmpfile>>
          /\ pc' = "except"
    /\ UNCHANGED <<pending, applies, outcome>>
    /\ WriteFrame

\* temp_path.rename(self.lockfile_path): the lock file is replaced in one
\* step, unless the rename fails
WriteRename ==
    /\ pc = "temp_written"
    /\ \/ /\ FilesAre([LockFiles EXCEPT ![temp_path(LOCKFILE_NAME)] = NoLock,
                                        ![LOCKFILE_NAME] =
                                            LockFiles[temp_path(LOCKFILE_NAME)]])
          /\ pc' = "written"
          /\ outcome' = "ok"
       \/ /\ UNCHANGED <<lock, tmpfile, outcome>>
          /\ pc' = "except"
    /\ UNCHANGED <<pending, applies>>
    /\ WriteFrame

\* the except clause: the temporary file is removed if it is there, and
\* LockfileError is raised
WriteExcept ==
    /\ pc = "except"
    /\ FilesAre([LockFiles EXCEPT ![temp_path(LOCKFILE_NAME)] = NoLock])
    /\ pc' = "raised"
    /\ outcome' = "LockfileError"
    /\ UNCHANGED <<pending, applies>>
    /\ WriteFrame

\* the process is killed in the middle of write
WriteCrash ==
    /\ pc \in {"write", "validated", "writing", "temp_written", "except"}
    /\ pc' = "crashed"
    /\ UNCHANGED <<lock, tmpfile, pending, applies, outcome>>
    /\ WriteFrame

NextWrite ==
    \/ WriteBegin \/ WriteValidate \/ WriteOpen \/ WriteText
    \/ WriteRename \/ WriteExcept \/ WriteCrash

SpecWrite == InitWrite /\ [][NextWrite]_vars

-----------------------------------------------------------------------------
(* The text merger run on its own *)

BlockLine(tok) == <<tok>>

MergeOurs ==
    Texts \cup {t \in TextsOf({<<"a">>, BlockLine(BeginTok("1")), BlockLine(EndTok("1"))},
                              MaxLines) : DOMAIN find_ignore_blocks(t) # {}}

\* a longer text: two blank lines and a line "a", with a line "a" added
\* after the first; SequenceMatcher aligns the two with a deletion
AlignedTheirs == <<NL, "a", NL, NL, "a", NL>>

\* a blank line before a protected block
BlankBeforeBlock == <<NL, BeginTok("1"), NL, EndTok("1"), NL>>

MergeTexts == MergeOurs \cup {AlignedTheirs, BlankBeforeBlock}

InitMerge ==
    /\ ours \in MergeTexts
    /\ theirs \in MergeTexts
    /\ merged = NoText
    /\ report = NoReport
    /\ pc = "text"
    /\ FsIdle
    /\ WriteIdle
    /\ MatchIdle

\* merge_utils.merge_with_conflicts
MergeText ==
    /\ pc = "text"
    /\ merged' = merge_with_conflicts(ours, theirs)
    /\ pc' = "merge_with_conflicts"
    /\ UNCHANGED <<ours, theirs, report, fsvars, matchvars, opvars, writevars>>

\* core.RetemplarCore._three_way_merge, on the baseline apply_changes passes
ThreeWayMerge ==
    /\ pc = "text"
    /\ LET m == _three_way_merge(_get_baseline_content, ours, theirs)
       IN  /\ merged' = m.text
           /\ report' = [has_conflicts |-> m.has_conflicts]
    /\ pc' = "_three_way_merge"
    /\ UNCHANGED <<ours, theirs, fsvars, matchvars, opvars, writevars>>

NextMerge == MergeText \/ ThreeWayMerge

SpecMerge == InitMerge /\ [][NextMerge]_vars

-----------------------------------------------------------------------------
(* The block enforcer run on its own *)

SentinelLines == {BlockLine(BeginTok(id)) : id \in BlockIds}
                    \cup {BlockLine(EndTok(id)) : id \in BlockIds}

BlockTextsOf(letter) ==
    {t \in TextsOf({letter} \cup SentinelLines, MaxBlockLines) :
        DOMAIN find_ignore_blocks(t) # {}}

\* the ids are interchangeable: ours is taken with id 1 as its first block
FirstIsOne(text) ==
    LET blocks == find_ignore_blocks(text)
    IN  /\ "1" \in DOMAIN blocks
        /\ \A id \in DOMAIN blocks : blocks["1"].start <= blocks[id].start

OursBlockTexts == {t \in BlockTextsOf(<<"a">>) : FirstIsOne(t)}
CandidateBlockTexts == BlockTextsOf(<<"b">>)

InitBlock ==
    /\ ours \in OursBlockTexts
    /\ theirs \in CandidateBlockTexts
    /\ merged = NoText
    /\ report = NoReport
    /\ pc = "blocks"
    /\ FsIdle
    /\ WriteIdle
    /\ MatchIdle

\* blockprotect.enforce_ours_blocks(ours, candidate)
Enforce ==
    /\ pc = "blocks"
    /\ \E r \in enforce_ours_blocks(ours, theirs) :
          /\ merged' = r.text
          /\ report' = [enforced |-> r.enforced, warnings |-> r.warnings]
    /\ pc' = "enforce_ours_blocks"
    /\ UNCHANGED <<ours, theirs, fsvars, matchvars, opvars, writevars>>

NextBlock == Enforce

SpecBlock == InitBlock /\ [][NextBlock]_vars

-----------------------------------------------------------------------------
(* The rule resolvers run on their own *)

MatchPaths == {P_d_x, P_d_e_x, P_y}
MatchPatterns == {DirGlob(<<"d">>), DirGlob(<<"d", "/", "e">>), DirGlob(P_d_x),
                  Wild(<<"d">>), <<"*">>, P_d_x, P_d_e_x}

InitMatch ==
    /\ mpath \in MatchPaths
    /\ mrules \in RuleListsOf(MatchPatterns, {"enforce", "preserve"}, MaxRules)
    /\ mbest = NoRule
    /\ pc = "rules"
    /\ FsIdle
    /\ WriteIdle
    /\ TextIdle

\* fs_utils.best_rule and core.RetemplarCore._find_best_matching_rule
Resolve ==
    /\ pc = "rules"
    /\ mbest' = [best_rule |-> best_rule(mpath, mrules),
                 core |-> _find_best_matching_rule(mpath, mrules)]
    /\ pc' = "resolved"
    /\ UNCHANGED <<mpath, mrules, fsvars, textvars, opvars, writevars>>

NextMatch == Resolve

SpecMatch == InitMatch /\ [][NextMatch]_vars

-----------------------------------------------------------------------------
(* Properties *)

\* the plan items of a path
ItemsOf(path) == {k \in 1..Len(plan.changes) : plan.changes[k].file = path}

\* the strategy that governs a path: that of its most specific matching rule,
\* none for an ignored or unmanaged path
Governing(path) ==
    IF _is_ignored(path, lock.ignore_paths) THEN "none"
    ELSE _find_best_matching_rule(path, lock.managed_paths).strategy

IsGlob(pattern) == \E k \in 1..Len(pattern) : pattern[k] = "*"

\* C1 (as claimed): a path that the ignore patterns match, exact, wildcard or
\* directory glob, is in no item of the plan.
C1_IgnoredNeverPlanned ==
    pc \in {"plan", "apply"} =>
        \A k \in 1..Len(plan.changes) :
            ~is_ignored(plan.changes[k].file, lock.ignore_paths)

\* C2: when a glob rule R1 and the exact rule R2 both match the path, the
\* resolver returns R2, whichever of the two is declared first.
C2_ExactBeatsGlob ==
    pc = "resolved" =>
        \A i, j \in 1..Len(mrules) :
            LET R1 == mrules[i]
                R2 == mrules[j]
            IN  (IsGlob(R1.path) /\ R2.path = mpath) =>
                    /\ (match(mpath, R1.path) /\ match(mpath, R2.path))
                            => mbest.best_rule = R2
                    /\ (_matches_pattern(mpath, R1.path) /\ _matches_pattern(mpath, R2.path))
                            => mbest.core = R2

\* C2 witness: a glob declared before the exact rule, both matching, and both
\* resolvers answered with the exact rule.
C2_Witness ==
    /\ pc = "resolved"
    /\ Len(mrules) = 2
    /\ IsGlob(mrules[1].path)
    /\ mrules[2].path = mpath
    /\ match(mpath, mrules[1].path)
    /\ _matches_pattern(mpath, mrules[1].path)
    /\ mbest.best_rule = mrules[2]
    /\ mbest.core = mrules[2]

\* C3 (as claimed): a path under an enforce rule that the target template has
\* is planned as create when the repository lacks it and as overwrite when it
\* has it, and after apply the repository file equals the template file.
C3_EnforceTakesTemplate ==
    pc = "apply" =>
        \A path \in DOMAIN tmpl :
            Governing(path) = "enforce" =>
                /\ \E k \in ItemsOf(path) :
                      plan.changes[k].type =
                          (IF path \in DOMAIN before THEN "overwrite" ELSE "create")
                /\ path \in DOMAIN repo
                /\ repo[path] = tmpl[path]

\* C4 (as claimed): a path under a preserve rule that the repository has is
\* planned as a no-op (keep), with or without a template file, and apply
\* leaves the file as it was.
C4_PreserveKeepsLocal ==
    pc = "apply" =>
        \A path \in DOMAIN before :
            Governing(path) = "preserve" =>
                /\ \A k \in ItemsOf(path) : plan.changes[k].type \in {"keep", "skip"}
                /\ path \in DOMAIN repo
                /\ repo[path] = before[path]

\* C5 (as claimed): a path under an enforce rule that the repository has and
\* the target template lacks gets a delete item, and is gone after apply.
C5_EnforceDeletesRemoved ==
    pc = "apply" =>
        \A path \in DOMAIN before \ DOMAIN tmpl :
            Governing(path) = "enforce" =>
                /\ \E k \in ItemsOf(path) : plan.changes[k].type = "delete"
                /\ path \notin DOMAIN repo

\* C6 (as claimed): a path under a merge rule that the repository has and the
\* target template lacks is planned as orphan, never delete; after apply the
\* file is at <name>.orphaned with its content, the path itself is gone.
C6_MergeOrphansRemoved ==
    pc = "apply" =>
        \A path \in DOMAIN before \ DOMAIN tmpl :
            Governing(path) = "merge" =>
                /\ \E k \in ItemsOf(path) : plan.changes[k].type = "orphan"
                /\ \A k \in ItemsOf(path) : plan.changes[k].type # "delete"
                /\ path \notin DOMAIN repo
                /\ orphaned_path(path) \in DOMAIN repo
                /\ repo[orphaned_path(path)] = before[path]

\* the line positions at which two equally long line lists differ
DiffLines(a, b) == {k \in 1..Len(a) : a[k] # b[k]}

\* C7 (as claimed): two three-line texts in which each side changed one line,
\* not the same one, merge into a text with both edits and without conflict
\* markers.
C7_DisjointEditsMergeCleanly ==
    LET a == splitlines(ours)
        b == splitlines(theirs)
    IN  (/\ pc \in {"merge_with_conflicts", "_three_way_merge"}
         /\ Len(a) = 3 /\ Len(b) = 3
         /\ Cardinality(DiffLines(a, b)) = 2)
        => /\ ~HasConflictMarkers(merged)
           /\ \E i, j \in DiffLines(a, b) :
                 /\ i # j
                 /\ splitlines(merged) = [k \in 1..3 |-> IF k = j THEN b[k] ELSE a[k]]

\* C8 (as claimed): a merge-rule file whose local content equals the template
\* content is left as it is by apply, without conflict markers.
C8_ApplyIdenticalIsNoop ==
    pc = "apply" =>
        \A path \in DOMAIN before \cap DOMAIN tmpl :
            (/\ \E k \in ItemsOf(path) : plan.changes[k].strategy = "merge"
             /\ before[path] = tmpl[path]
             /\ ~HasConflictMarkers(before[path]))
            => /\ path \in DOMAIN repo
               /\ repo[path] = before[path]

\* C9 (as claimed): the merged text ends with a newline exactly when theirs
\* does, also when theirs is empty.
C9_TrailingNewlineLaw ==
    pc = "merge_with_conflicts" => (endswith(merged, NL) <=> endswith(theirs, NL))

\* C9 (amended): for a non-empty theirs, the merged text ends with a newline
\* exactly when theirs does.
C9_TrailingNewlineNonEmpty ==
    (pc = "merge_with_conflicts" /\ theirs # <<>>)
        => (endswith(merged, NL) <=> endswith(theirs, NL))

\* C9 witness: theirs has no final newline and the merge ended in a conflict
\* block, whose closing marker lost its newline.
C9_Witness ==
    /\ pc = "merge_with_conflicts"
    /\ theirs # <<>>
    /\ ~endswith(theirs, NL)
    /\ endswith(merged, ">>>>>>> TEMPLATE")

\* the lines outside the blocks of the given ids
OutsideLines(lines, ids) ==
    LET blocks == BlocksOfLines(lines)
        inside == {k \in 0..(Len(lines) - 1) :
                      \E id \in ids \cap DOMAIN blocks :
                          blocks[id].start <= k /\ k <= blocks[id].end}
        RECURSIVE Keep(_)
        Keep(k) == IF k >= Len(lines) THEN <<>>
                   ELSE (IF k \in inside THEN <<>> ELSE <<lines[k + 1]>>) \o Keep(k + 1)
    IN  Keep(0)

C11_UnmanagedUntouched ==
    pc = "apply" =>
        \A path \in DOMAIN before :
            (\/ is_ignored(path, lock.ignore_paths)
             \/ best_rule(path, lock.managed_paths) = NoRule)
            => /\ path \in DOMAIN repo
               /\ repo[path] = before[path]

\* C12 (as claimed): after a successful apply the lock record names the
\* target as its template source (ref and commit), its applied ref and commit
\* are the target's too, and its version is kind@ref of that source.
C12_LockFollowsTarget ==
    (pc = "apply" /\ outcome = "ok") =>
        /\ lock.template.ref = Target.ref
        /\ lock.template.commit = Target.commit
        /\ lock.applied_ref = Target.ref
        /\ lock.applied_commit = Target.commit
        /\ lock.version = _sync_version(lock.template)

C14_LockWriteFailureIsWarning ==
    (pc = "apply" /\ fault.lock_write) =>
        /\ outcome = "ok"
        /\ result # NoResult

\* the two sets of files agree on every path but one
SameBut(a, b, path) ==
    /\ DOMAIN a \ {path} = DOMAIN b \ {path}
    /\ \A q \in DOMAIN a \ {path} : a[q] = b[q]

\* C15: when the file system fails at plan item k, the apply raises at once:
\* the repository holds what the items before k made of it, no later item
\* has run, and the lock record is as it was before the apply.
C15_FailurePropagates ==
    [][(pc' = "apply" /\ outcome' = "OSError") =>
          LET k == fault'.item
              done == ApplyChanges(SubSeq(plan'.changes, 1, k - 1), tmpl, NoFault,
                                   LoopStart(RepoFiles(lock, repo)))
          IN  /\ lock' = lock
              /\ SameBut(RepoFiles(lock', repo'), done.tree, plan'.changes[k].file)]_vars

\* C16: on a repository without a lock record, plan, apply, drift detection
\* and the lock read raise the not-adopted error, and leave the repository
\* files as they are and the lock record absent.
C16_NotAdopted ==
    [][lock = NoLock =>
          /\ outcome' = "LockfileNotFoundError"
          /\ repo' = repo
          /\ lock' = NoLock]_vars

\* C16 witness: an apply on a repository that holds files and no lock record
\* has raised the not-adopted error.
C16_Witness ==
    /\ lock = NoLock
    /\ pc = "apply"
    /\ applies = 1
    /\ repo # EmptyTree
    /\ tmpl # EmptyTree
    /\ outcome = "LockfileNotFoundError"

\* the plan items that merge a file of which one side is not text
UndecodableMerges ==
    {k \in 1..Len(plan.changes) :
        /\ plan.changes[k].strategy = "merge"
        /\ plan.changes[k].type = "conflict"
        /\ plan.changes[k].file \in DOMAIN before
        /\ Binary \in {before[plan.changes[k].file], tmpl[plan.changes[k].file]}}

\* C17: a merge item whose file is not text on one side does not abort the
\* apply: the local file stays as it was, the item counts as a conflict and
\* the apply goes on.
C17_UndecodableMergeIsSoft ==
    (pc = "apply" /\ fault = NoFault) =>
        \A k \in UndecodableMerges :
            /\ outcome # "UnicodeDecodeError"
            /\ plan.changes[k].file \in DOMAIN repo
            /\ repo[plan.changes[k].file] = before[plan.changes[k].file]
            /\ outcome = "ok" => result.conflicts_resolved >= 1

\* C20: no plan and no apply on a file system that does not fail takes a
\* readable lock record away: after the step the record is at its path and
\* readable.
C20_LockNeverDeleted ==
    [][(IsReadable(lock) /\ fault' = NoFault) => IsReadable(lock')]_vars

\* C18: after an apply, the file of every create or overwrite item holds the
\* template's content as the render rules of the lock record, applied in
\* their order, make it.
C18_WritesRenderedContent ==
    (pc = "apply" /\ outcome = "ok") =>
        \A k \in 1..Len(plan.changes) :
            plan.changes[k].type \in {"create", "overwrite"} =>
                /\ plan.changes[k].file \in DOMAIN repo
                /\ repo[plan.changes[k].file] =
                      apply_render_rules_text(tmpl[plan.changes[k].file],
                                              lock.render_rules).text

\* the data holds a malformed rule: an empty managed path, an unknown
\* strategy, a regular expression that does not compile, or no locator
IsMalformed(data) ==
    \/ \E k \in 1..Len(data.managed_paths) :
          \/ strip(data.managed_paths[k].path) = <<>>
          \/ data.managed_paths[k].strategy \notin {"enforce", "merge", "preserve"}
    \/ \E k \in 1..Len(data.render_rules) :
          /\ ~data.render_rules[k].literal
          /\ re_error(data.render_rules[k].pattern)
    \/ data.template.repo = <<>>

\* C19: the construction of a lock record from data that holds a malformed
\* rule is rejected.
C19_MalformedRejectedAtConstruction ==
    (pc = "constructed" /\ IsMalformed(pending)) => outcome = "ValidationError"

\* C21: every item of the plan carries the strategy and the pattern of the
\* most specific rule that matches its path, for a path of the template and
\* for a path that only the repository has.
C21_ItemsUnderBestRule ==
    pc \in {"plan", "apply"} =>
        \A k \in 1..Len(plan.changes) :
            LET best == _find_best_matching_rule(plan.changes[k].file, lock.managed_paths)
            IN  /\ plan.changes[k].strategy = best.strategy
                /\ plan.changes[k].matched_rule = best.path

\* the class of a rule for a path: exact literal, directory glob, other
\* wildcard
RankClass(path, r) ==
    IF r.path = path THEN 0
    ELSE IF endswith(r.path, "*") /\ Len(r.path) >= 3
            /\ SubSeq(r.path, Len(r.path) - 2, Len(r.path)) = <<"/", "*", "*">> THEN 1
    ELSE 2

\* r ranks strictly before q: the lower class, and in one class the longer
\* pattern
RanksBefore(path, r, q) ==
    \/ RankClass(path, r) < RankClass(path, q)
    \/ RankClass(path, r) = RankClass(path, q) /\ Len(r.path) > Len(q.path)

\* the rule found is the first declared among the matching rules that no
\* matching rule ranks before
IsBestOf(path, found, matching) ==
    matching # {} =>
        \E j \in matching :
            /\ found = mrules[j]
            /\ \A i \in matching : ~RanksBefore(path, mrules[i], found)
            /\ \A i \in matching : i < j => RanksBefore(path, found, mrules[i])

\* C22: both resolvers return the matching rule that ranks first: exact
\* before directory globs before other wildcards, the longer pattern first
\* within a class, the first declared among those still tied.
C22_RankedBySpecificity ==
    pc = "resolved" =>
        /\ IsBestOf(mpath, mbest.best_rule,
                    {i \in 1..Len(mrules) : match(mpath, mrules[i].path)})
        /\ IsBestOf(mpath, mbest.core,
                    {i \in 1..Len(mrules) : _matches_pattern(mpath, mrules[i].path)})

\* C23: for a path under a merge rule that both trees hold, the plan has no
\* item when the template's content, rendered, equals the local content, and
\* one conflict item when it differs; the conflict count is the number of
\* conflict and orphan items.
C23_MergeComparesContent ==
    pc = "plan" =>
        /\ \A path \in DOMAIN repo \cap DOMAIN tmpl :
              Governing(path) = "merge" =>
                  IF apply_render_rules_text(tmpl[path], lock.render_rules).text = repo[path]
                  THEN ItemsOf(path) = {}
                  ELSE \E k \in ItemsOf(path) :
                          /\ ItemsOf(path) = {k}
                          /\ plan.changes[k].type = "conflict"
        /\ plan.conflicts = Cardinality({k \in 1..Len(plan.changes) :
                                           plan.changes[k].type \in {"conflict", "orphan"}})

\* the characters of the paths, in code point order
CodePoints == <<"*", ".", "/", "a", "d", "e", "h", "n", "o", "p", "r", "x", "y">>
CodePoint(c) == CHOOSE i \in 1..Len(CodePoints) : CodePoints[i] = c

\* a < b for two paths compared as strings
RECURSIVE PathLess(_, _)
PathLess(a, b) ==
    IF b = <<>> THEN FALSE
    ELSE IF a = <<>> THEN TRUE
    ELSE IF Head(a) = Head(b) THEN PathLess(Tail(a), Tail(b))
    ELSE CodePoint(Head(a)) < CodePoint(Head(b))

\* C24: the items of the plan are in ascending order of path.
C24_PlanSortedByPath ==
    pc = "plan" =>
        \A i, j \in 1..Len(plan.changes) :
            i < j => PathLess(plan.changes[i].file, plan.changes[j].file)

\* a is b with elements left out
RECURSIVE IsSubsequence(_, _)
IsSubsequence(a, b) ==
    IF a = <<>> THEN TRUE
    ELSE IF b = <<>> THEN FALSE
    ELSE IF Head(a) = Head(b) THEN IsSubsequence(Tail(a), Tail(b))
    ELSE IsSubsequence(a, Tail(b))

\* the number of lines of a text equal to the given line
CountOf(line, lines) == Cardinality({k \in 1..Len(lines) : lines[k] = line})

\* C25: when theirs is ours with lines inserted, the merged text holds every
\* line of theirs as often as theirs does and no conflict marker.
C25_TemplateWinsOnAdditions ==
    (/\ pc = "merge_with_conflicts"
     /\ IsSubsequence(splitlines(ours), splitlines(theirs)))
        => /\ ~HasConflictMarkers(merged)
           /\ \A k \in 1..Len(splitlines(theirs)) :
                 CountOf(splitlines(theirs)[k], splitlines(merged))
                     >= CountOf(splitlines(theirs)[k], splitlines(theirs))

\* the lines of the block id of a text, sentinels included
BlockLinesOf(text, id) ==
    LET b == find_ignore_blocks(text)[id]
    IN  SubSeq(splitlines(text), b.start + 1, b.end + 1)

\* the places in the lines of a text where the given lines stand together
PlacesOf(block, lines) ==
    {p \in 1..(Len(lines) - Len(block) + 1) :
        SubSeq(lines, p, p + Len(block) - 1) = block}

\* C26: the merged text holds the lines of every protected block of ours
\* together and unchanged, at exactly one place.
C26_BlocksVerbatimOnce ==
    pc = "merge_with_conflicts" =>
        \A id \in DOMAIN find_ignore_blocks(ours) :
            Cardinality(PlacesOf([k \in 1..Len(BlockLinesOf(ours, id)) |->
                                     rstrip(BlockLinesOf(ours, id)[k], NL)],
                                 LinesOf(merged))) = 1

\* C27: the counters an apply returns are those of its plan: the resolved
\* conflicts are the plan's conflict count, one for each conflict item and
\* each orphan item, and the file changes are the items that write or
\* delete a file, the conflict items among them and the orphan items not.
C27_CountersAgreeWithPlan ==
    (pc = "apply" /\ outcome = "ok") =>
        /\ result.conflicts_resolved = plan.conflicts
        /\ result.conflicts_resolved =
              Cardinality({k \in 1..Len(plan.changes) :
                              plan.changes[k].type \in {"conflict", "orphan"}})
        /\ result.files_changed =
              Cardinality({k \in 1..Len(plan.changes) :
                              plan.changes[k].type \in
                                  {"create", "overwrite", "delete", "conflict"}})

\* C28: a second apply to the same target, with nothing changed since the
\* first, leaves the repository files as the first apply left them.
C28_ApplyFixedPoint ==
    (pc = "apply" /\ applies = 2 /\ outcome = "ok") => repo = before

\* C29: an apply that orphans a file leaves a file that was already at the
\* destination, and that the plan has no item for, as it was.
C29_OrphanKeepsEarlierContent ==
    (pc = "apply" /\ outcome = "ok") =>
        \A k \in 1..Len(plan.changes) :
            LET dest == orphaned_path(plan.changes[k].file)
            IN  (/\ plan.changes[k].type = "orphan"
                 /\ dest \in DOMAIN before
                 /\ ItemsOf(dest) = {})
                => /\ dest \in DOMAIN repo
                   /\ repo[dest] = before[dest]

\* how many lines of ours the merged text may lack: one blank line when
\* the last line of ours is a blank line, none otherwise
MayLack(line, ours_lines) ==
    IF line = <<>> /\ ours_lines # <<>> /\ ours_lines[Len(ours_lines)] = <<>> THEN 1 ELSE 0

\* C30: every line of ours, compared without its newline, is in the merged
\* text at least as often as in ours, but for one blank line when ours ends
\* with a blank line.
C30_NoLocalLineDropped ==
    pc \in {"merge_with_conflicts", "_three_way_merge"} =>
        \A k \in 1..Len(LinesOf(ours)) :
            CountOf(LinesOf(ours)[k], LinesOf(merged)) + MayLack(LinesOf(ours)[k], LinesOf(ours))
                >= CountOf(LinesOf(ours)[k], LinesOf(ours))

====
